---- MODULE Spec2Model ----
(***************************************************************************)
(* campy, FLIR backend: the acquisition loop GrabFrames and its            *)
(* finalization CloseCamera (src/campy/cameras/flir/cam.py).               *)
(*                                                                         *)
(* One step of the model is one statement (or one group of statements      *)
(* that cannot fail between them) of the source.  Every call into the      *)
(* camera SDK inside the try block of GrabFrames may return, raise         *)
(* PySpin.SpinnakerException or raise another Exception; the outcome is    *)
(* chosen by the environment.  The environment also raises the stop        *)
(* signal (stopQueue becomes non-empty), ends the stream                   *)
(* (camera.IsStreaming() turns False) and delivers KeyboardInterrupt       *)
(* inside CloseCamera, where the source handles it.                        *)
(***************************************************************************)
EXTENDS Integers, Sequences, FiniteSets, TLC

\* ------------------------------------------------------------------ bounds
\* frames the camera delivers in one session
MaxFrames == 2
\* largest advance of the hardware clock between two delivered frames (ns)
MaxTick == 1

\* cam_params values explored
FrameRates == {1, 2}
RecTimes == {1, 2}
DisplayFrameRates == {0, 1, 3}
ChunkLengths == {1}

\* (t1 - t0) / 1e9, cam.py line 98
NsPerSec == 1000000000

VARIABLES
    cam_params,     \* recTimeInSec, frameRate, displayFrameRate, chunkLengthInSec
    pc,             \* position of the thread running GrabFrames
    cnt,            \* frame counter
    grabdata,       \* [timeStamp: Seq, frameNumber: Seq]
    timeFirstGrab,  \* << >> while unbound, <<t>> once assigned
    grabResult,     \* << >> or <<image>>: the image returned by GetNextImage
    writeQueue,     \* deque handed to the writer
    dispQueue,      \* deque handed to the display
    stopQueue,      \* deque filled by the caller to stop the session
    streaming,      \* what camera.IsStreaming() returns
    hwClock,        \* hardware timestamp of the last delivered frame
    nDelivered,     \* frames delivered by the camera so far
    exc,            \* the exception CloseCamera is handling, or "none"
    nCloseCamera,   \* calls of CloseCamera (saturating)
    nSave,          \* calls of SaveMetadata (saturating)
    grabsSinceStop, \* GetNextImage calls begun after the stop signal (saturating)
    errRun,         \* [k, base, succ]: failed grabs in a row, cnt before them,
                    \* and whether a successful grab has followed them
    held,           \* ids of the images returned and not yet released
    recorded,       \* the images a record was appended for, in order
    nDispErr,       \* display pushes (line 105) that raised
    logged,         \* the iteration before this stop check ended on line 117
    saved,          \* SaveMetadata has returned at least once
    closed,         \* camera.Close() has returned at least once
    attempt,        \* device calls completed in this round of CloseCamera's loop
    args,           \* who calls prepare_camera, and trigger_type, bufferMode, bufferSize
    ran,            \* the configuration steps prepare_camera has invoked, in order
    rets,           \* what the steps that returned have returned, in order
    result,         \* prepare_camera's local variable result
    returned,       \* << >>, or <<v>> once prepare_camera has returned v
    nodes,          \* the camera's trigger and stream buffer settings
    started,        \* OpenCamera has handed out the camera as started
    bufferEntry     \* << >>, or <<the stream buffer settings configure_buffer found>>

vars == <<cam_params, pc, cnt, grabdata, timeFirstGrab, grabResult, writeQueue,
          dispQueue, stopQueue, streaming, hwClock, nDelivered, exc,
          nCloseCamera, nSave, grabsSinceStop, errRun, held, recorded,
          nDispErr, logged, saved, closed, attempt,
          args, ran, rets, result, returned, nodes, started, bufferEntry>>

\* the state of OpenCamera and prepare_camera
setup == <<args, ran, rets, result, returned, nodes, started, bufferEntry>>

\* ------------------------------------------------------------- pure helpers
Min(a, b) == IF a < b THEN a ELSE b

\* saturation of the bookkeeping counters
MaxCount == 2

Bump(n) == Min(n + 1, MaxCount)

\* Python's round() of the quotient a / b of two positive integers:
\* to nearest, ties to even
RoundDiv(a, b) ==
    LET q == a \div b
        r == a % b
    IN  IF 2 * r < b THEN q
        ELSE IF 2 * r > b THEN q + 1
        ELSE IF q % 2 = 0 THEN q ELSE q + 1

\* numImagesToGrab, line 64
numImagesToGrab == cam_params.recTimeInSec * cam_params.frameRate

\* chunkLengthInFrames, line 65
chunkLengthInFrames == cam_params.chunkLengthInSec * cam_params.frameRate

\* mutant: the quotient is truncated instead of rounded
frameRatioTruncated ==
    IF cam_params.displayFrameRate <= 0
    THEN [inf |-> TRUE, n |-> 0]
    ELSE IF cam_params.displayFrameRate <= cam_params.frameRate
    THEN [inf |-> FALSE, n |-> cam_params.frameRate \div cam_params.displayFrameRate]
    ELSE [inf |-> FALSE, n |-> cam_params.frameRate]

\* frameRatio, lines 67-72; float('inf') is [inf |-> TRUE]
frameRatio ==
    IF cam_params.displayFrameRate <= 0
    THEN [inf |-> TRUE, n |-> 0]
    ELSE IF cam_params.displayFrameRate <= cam_params.frameRate
    THEN [inf |-> FALSE, n |-> RoundDiv(cam_params.frameRate, cam_params.displayFrameRate)]
    ELSE [inf |-> FALSE, n |-> cam_params.frameRate]

\* mutant: the cadence is tested on the counter before its increment
DisplayDueStale(n) == IF frameRatio.inf THEN n = 1 ELSE (n - 1) % frameRatio.n = 0

\* cnt % frameRatio == 0, line 104 (n % inf is n for n > 0)
DisplayDue(n) == IF frameRatio.inf THEN n = 0 ELSE n % frameRatio.n = 0

\* the image of the k-th delivered frame, hardware timestamp t
Image(k, t) == [id |-> k, ts |-> t]

\* writeQueue.append('STOP'), line 86
STOP == [id |-> 0, ts |-> 0]

\* grabResult.Array[::d, ::d], line 105
Downsample(img) == [id |-> img.id]

\* (chunkData.GetTimestamp() - timeFirstGrab) / 1e9, line 98, as a fraction
GrabTime(t, t0) == [num |-> t - t0, den |-> NsPerSec]

NoExc == "none"

\* no run of failed grabs is under way (the loop has not begun one, or has ended)
NoRun == [k |-> 0, base |-> 0, succ |-> FALSE]

LoopPcs == {"while", "check", "grab", "push", "stamp", "disp", "release",
            "report", "sleep", "log"}

ClosePcs == {"save", "sleep1", "close", "stopgrab", "backoff"}

\* outcomes of a call inside the try block of GrabFrames
Outcomes == {"ok", "SpinnakerException", "Exception"}

\* where an exception raised in the try block lands: lines 113-117
Handler(kind) == IF kind = "SpinnakerException" THEN "sleep" ELSE "log"

\* ------------------------------------------------ OpenCamera: definitions
\* the configuration steps in the order of CameraPreparation.py lines 380-385
PrepareOrder ==
    <<"configure_acquisition_mode", "configure_exposure", "configure_gain",
      "disable_gamma", "configure_trigger", "configure_buffer">>

TriggerTypes == {"hardware", "software", "other"}

\* the four modes configure_buffer accepts, lines 335-350
HandlingModes == {"OldestFirst", "NewestFirst", "NewestOnly", "OldestFirstOverwrite"}

BufferModes == HandlingModes \cup {"other"}

BufferSizes == {100}

\* the call of prepare_camera on cam.py lines 29-30
OpenCameraArgs ==
    [caller |-> "OpenCamera", trigger_type |-> "hardware",
     bufferMode |-> "OldestFirst", bufferSize |-> 100]

\* prepare_camera called with any arguments, lines 358-359
DirectArgs ==
    [caller : {"direct"}, trigger_type : TriggerTypes, bufferMode : BufferModes,
     bufferSize : BufferSizes]

\* the settings a camera may have after camera.Init(), cam.py line 28
FreshNodes ==
    [TriggerMode : {"Off", "On"}, TriggerSource : {"Software"},
     StreamBufferCountMode : {"Auto", "Manual"}, StreamBufferCountManual : {10},
     StreamBufferHandlingMode : {"OldestFirst"}]

\* the settings after a prepare_camera call in which every step succeeded
PreparedNodes ==
    [TriggerMode |-> "On", TriggerSource |-> "Line0",
     StreamBufferCountMode |-> "Manual", StreamBufferCountManual |-> 100,
     StreamBufferHandlingMode |-> "OldestFirst"]

\* the stream buffer settings among the camera's settings: the nodes of
\* CameraPreparation.py lines 298, 309 and 324
BufferSettings(n) ==
    [StreamBufferCountMode |-> n.StreamBufferCountMode,
     StreamBufferCountManual |-> n.StreamBufferCountManual,
     StreamBufferHandlingMode |-> n.StreamBufferHandlingMode]

\* GrabFrames is entered with a camera that OpenCamera has handed out
Opened ==
    /\ args = OpenCameraArgs
    /\ ran = PrepareOrder
    /\ rets = <<TRUE, TRUE, TRUE, TRUE, TRUE, TRUE>>
    /\ result = TRUE
    /\ returned = <<TRUE>>
    /\ nodes = PreparedNodes
    /\ started = TRUE
    /\ bufferEntry = <<[StreamBufferCountMode |-> "Auto",
                        StreamBufferCountManual |-> 10,
                        StreamBufferHandlingMode |-> "OldestFirst"]>>

\* ---------------------------------------------------------------- Init
Init ==
    /\ cam_params \in [recTimeInSec : RecTimes, frameRate : FrameRates,
                       displayFrameRate : DisplayFrameRates,
                       chunkLengthInSec : ChunkLengths]
    /\ pc = "while"
    /\ cnt = 0
    /\ grabdata = [timeStamp |-> << >>, frameNumber |-> << >>]
    /\ timeFirstGrab = << >>
    /\ grabResult = << >>
    /\ writeQueue = << >>
    /\ dispQueue = << >>
    /\ stopQueue = << >>
    /\ streaming = TRUE
    /\ hwClock = 0
    /\ nDelivered = 0
    /\ exc = NoExc
    /\ nCloseCamera = 0
    /\ nSave = 0
    /\ grabsSinceStop = 0
    /\ errRun = NoRun
    /\ held = {}
    /\ recorded = << >>
    /\ nDispErr = 0
    /\ logged = FALSE
    /\ saved = FALSE
    /\ closed = FALSE
    /\ attempt = << >>
    /\ Opened

\* ------------------------------------------------------------ environment
\* the caller appends to stopQueue while the session runs
RaiseStop ==
    /\ pc \in LoopPcs
    /\ stopQueue = << >>
    /\ stopQueue' = <<"stop">>
    /\ UNCHANGED <<cam_params, setup, pc, cnt, grabdata, timeFirstGrab, grabResult,
                   writeQueue, dispQueue, streaming, hwClock, nDelivered, exc,
                   nCloseCamera, nSave, grabsSinceStop, errRun, held, recorded,
                   nDispErr, logged, saved, closed, attempt>>

\* the camera stops streaming
StreamEnd ==
    /\ pc \in LoopPcs
    /\ streaming
    /\ streaming' = FALSE
    /\ UNCHANGED <<cam_params, setup, pc, cnt, grabdata, timeFirstGrab, grabResult,
                   writeQueue, dispQueue, stopQueue, hwClock, nDelivered, exc,
                   nCloseCamera, nSave, grabsSinceStop, errRun, held, recorded,
                   nDispErr, logged, saved, closed, attempt>>

\* ------------------------------------------------------------- GrabFrames
params == <<cam_params>>
sinks == <<writeQueue, dispQueue>>
camera == <<streaming, hwClock, nDelivered>>
closing == <<nCloseCamera, nSave>>
device == <<saved, closed, attempt>>

\* while (camera.IsStreaming()), line 83
While ==
    /\ pc = "while"
    /\ pc' = IF streaming THEN "check" ELSE "done"
    /\ errRun' = IF streaming THEN errRun ELSE NoRun
    /\ logged' = IF streaming THEN logged ELSE FALSE
    /\ UNCHANGED <<params, setup, cnt, grabdata, timeFirstGrab, grabResult, sinks,
                   stopQueue, camera, exc, closing, grabsSinceStop, held,
                   recorded, nDispErr, device>>

\* mutant: the target is compared with > instead of >=
StopConditionOffByOne == stopQueue # << >> \/ cnt > numImagesToGrab

\* stopQueue or cnt >= numImagesToGrab, line 84
StopCondition == stopQueue # << >> \/ cnt >= numImagesToGrab

\* if ...: CloseCamera(cam_params, camera, grabdata), lines 84-85
StopCheck ==
    /\ pc = "check"
    /\ IF StopCondition
       THEN pc' = "save" /\ nCloseCamera' = Bump(nCloseCamera) /\ errRun' = NoRun
       ELSE pc' = "grab" /\ UNCHANGED <<nCloseCamera, errRun>>
    /\ logged' = FALSE
    /\ UNCHANGED <<params, setup, cnt, grabdata, timeFirstGrab, grabResult, sinks,
                   stopQueue, camera, exc, nSave, grabsSinceStop, held,
                   recorded, nDispErr, device>>

\* the run of failed grabs after one more SpinnakerException from GetNextImage
ErrRunAfterError ==
    IF errRun.k = 0 \/ errRun.succ
    THEN [k |-> 1, base |-> cnt, succ |-> FALSE]
    ELSE [errRun EXCEPT !.k = Bump(errRun.k)]

\* grabResult = camera.GetNextImage(timeout), line 90
GetNextImage ==
    /\ pc = "grab"
    /\ grabsSinceStop' = IF stopQueue # << >> THEN Bump(grabsSinceStop)
                         ELSE grabsSinceStop
    /\ \E o \in Outcomes :
         IF o = "ok"
         THEN /\ nDelivered < MaxFrames
              /\ \E d \in 0..MaxTick :
                   /\ hwClock' = hwClock + d
                   /\ grabResult' = <<Image(nDelivered + 1, hwClock + d)>>
              /\ nDelivered' = nDelivered + 1
              /\ held' = held \cup {nDelivered + 1}
              /\ errRun' = IF errRun.succ \/ errRun.k = 0 THEN NoRun
                           ELSE [errRun EXCEPT !.succ = TRUE]
              /\ pc' = "push"
              /\ UNCHANGED exc
         ELSE /\ pc' = Handler(o)
              /\ UNCHANGED exc
              /\ errRun' = IF o = "SpinnakerException" THEN ErrRunAfterError
                           ELSE NoRun
              /\ UNCHANGED <<hwClock, nDelivered, grabResult, held>>
    /\ UNCHANGED <<params, setup, cnt, grabdata, timeFirstGrab, sinks, stopQueue,
                   streaming, closing, recorded,
                   nDispErr, logged, device>>

\* mutant: the image is put at the head of the deque (appendleft)
WriteQueueAppendLeft(q, img) == <<img>> \o q

\* writeQueue.append(img), line 94
WriteQueueAppend(q, img) == Append(q, img)

\* chunkData = grabResult.GetChunkData();
\* writeQueue.append(grabResult.GetNDArray()), lines 91-94
PushWrite ==
    /\ pc = "push"
    /\ \E o \in Outcomes :
         IF o = "ok"
         THEN /\ writeQueue' = WriteQueueAppend(writeQueue, grabResult[1])
              /\ pc' = "stamp"
              /\ UNCHANGED <<exc, grabResult>>
         ELSE /\ pc' = Handler(o)
              /\ UNCHANGED exc
              /\ grabResult' = << >>
              /\ UNCHANGED writeQueue
    /\ UNCHANGED <<params, setup, cnt, grabdata, timeFirstGrab, dispQueue, stopQueue,
                   camera, closing, grabsSinceStop, errRun, held, recorded,
                   nDispErr, logged, device>>

\* mutant: time zero is taken again on every frame
FirstGrabEveryFrame(c, t0, t) == <<t>>

\* if cnt == 0: timeFirstGrab = chunkData.GetTimestamp(), lines 96-97
FirstGrab(c, t0, t) == IF c = 0 THEN <<t>> ELSE t0

\* mutant: the frame number is appended before the counter is incremented
FrameNumberAppendStale(fn, c) == Append(fn, c - 1)

\* grabdata['frameNumber'].append(cnt), line 102
FrameNumberAppend(fn, c) == Append(fn, c)

\* lines 96-102: time zero, grabtime, the record, the counter.  GetTimestamp
\* is called on line 97 (first frame only) and on line 98
Stamp ==
    /\ pc = "stamp"
    /\ \E o \in Outcomes, line \in {97, 98} :
         LET t == grabResult[1].ts
             t0 == FirstGrab(cnt, timeFirstGrab, t)
         IN  IF o = "ok"
             THEN /\ line = 98
                  /\ timeFirstGrab' = t0
                  /\ grabdata' =
                       [timeStamp |-> Append(grabdata.timeStamp, GrabTime(t, t0[1])),
                        frameNumber |-> FrameNumberAppend(grabdata.frameNumber, cnt + 1)]
                  /\ cnt' = cnt + 1
                  /\ recorded' = Append(recorded, grabResult[1])
                  /\ pc' = "disp"
                  /\ UNCHANGED <<exc, grabResult>>
             ELSE /\ line = 97 => cnt = 0
                  /\ timeFirstGrab' = IF line = 98 THEN t0 ELSE timeFirstGrab
                  /\ pc' = Handler(o)
                  /\ UNCHANGED exc
                  /\ grabResult' = << >>
                  /\ UNCHANGED <<grabdata, cnt, recorded>>
    /\ UNCHANGED <<params, setup, sinks, stopQueue, camera, closing, grabsSinceStop,
                   errRun, held,
                   nDispErr, logged, device>>

\* dispQueue.append(img), line 105
DispQueueAppend(q, img) == Append(q, img)

\* if cnt % frameRatio == 0: dispQueue.append(grabResult.Array[...]),
\* lines 104-106
Display ==
    /\ pc = "disp"
    /\ IF DisplayDue(cnt)
       THEN \E o \in Outcomes :
              IF o = "ok"
              THEN /\ dispQueue' = DispQueueAppend(dispQueue, Downsample(grabResult[1]))
                   /\ pc' = "release"
                   /\ UNCHANGED <<exc, grabResult, nDispErr>>
              ELSE /\ pc' = Handler(o)
                   /\ UNCHANGED exc
                   /\ grabResult' = << >>
                   /\ nDispErr' = nDispErr + 1
                   /\ UNCHANGED dispQueue
       ELSE /\ pc' = "release"
            /\ UNCHANGED <<dispQueue, exc, grabResult, nDispErr>>
    /\ UNCHANGED <<params, setup, cnt, grabdata, timeFirstGrab, writeQueue, stopQueue,
                   camera, closing, grabsSinceStop, errRun, held, recorded,
                   logged, device>>

\* grabResult.Release(), line 107
Release ==
    /\ pc = "release"
    /\ \E o \in Outcomes :
         IF o = "ok"
         THEN /\ held' = held \ {grabResult[1].id}
              /\ pc' = "report"
              /\ UNCHANGED exc
         ELSE /\ pc' = Handler(o)
              /\ UNCHANGED exc
              /\ UNCHANGED held
    /\ grabResult' = << >>
    /\ UNCHANGED <<params, setup, cnt, grabdata, timeFirstGrab, sinks, stopQueue,
                   camera, closing, grabsSinceStop, errRun, recorded,
                   nDispErr, logged, device>>

\* cnt % chunkLengthInFrames and cnt / grabtime divide by zero, lines 109-110
ReportRaises ==
    \/ chunkLengthInFrames = 0
    \/ /\ cnt % chunkLengthInFrames = 0
       /\ grabdata.timeStamp[Len(grabdata.timeStamp)].num = 0

\* if cnt % chunkLengthInFrames == 0: print(...), lines 109-111
Report ==
    /\ pc = "report"
    /\ IF ReportRaises
       THEN pc' = Handler("Exception")
       ELSE pc' = "while"
    /\ UNCHANGED exc
    /\ UNCHANGED <<params, setup, cnt, grabdata, timeFirstGrab, grabResult, sinks,
                   stopQueue, camera, closing, grabsSinceStop, errRun, held,
                   recorded,
                   nDispErr, logged, device>>

\* mutant: the handler of SpinnakerException leaves the loop
SleepThenBreak ==
    /\ pc = "sleep"
    /\ pc' = "done"
    /\ errRun' = NoRun
    /\ UNCHANGED <<params, setup, cnt, grabdata, timeFirstGrab, grabResult, sinks,
                   stopQueue, camera, exc, closing, grabsSinceStop, held,
                   recorded,
                   nDispErr, logged, device>>

\* except PySpin.SpinnakerException: print; time.sleep(0.0001), lines 113-115
Sleep ==
    /\ pc = "sleep"
    /\ pc' = "while"
    /\ UNCHANGED exc
    /\ UNCHANGED <<params, setup, cnt, grabdata, timeFirstGrab, grabResult, sinks,
                   stopQueue, camera, closing, grabsSinceStop, errRun, held,
                   recorded,
                   nDispErr, logged, device>>

\* mutant: the handler of Exception logs and leaves the loop
LogThenBreak ==
    /\ pc = "log"
    /\ pc' = "done"
    /\ logged' = TRUE
    /\ errRun' = NoRun
    /\ UNCHANGED <<params, setup, cnt, grabdata, timeFirstGrab, grabResult, sinks,
                   stopQueue, camera, exc, closing, grabsSinceStop, held,
                   recorded, nDispErr, device>>

\* except Exception: logging.error(...), lines 116-117
Log ==
    /\ pc = "log"
    /\ pc' = "while"
    /\ logged' = TRUE
    /\ UNCHANGED exc
    /\ UNCHANGED <<params, setup, cnt, grabdata, timeFirstGrab, grabResult, sinks,
                   stopQueue, camera, closing, grabsSinceStop, errRun, held,
                   recorded,
                   nDispErr, device>>

\* ------------------------------------------------------------ CloseCamera
\* outcomes of a call inside the inner try of CloseCamera
CloseOutcomes == {"ok", "Exception", "KeyboardInterrupt"}

\* the inner "except:" catches everything raised on lines 128-131, line 133
InnerExcept(kind) == "backoff"

\* a KeyboardInterrupt raised on line 134 reaches "except KeyboardInterrupt:
\* break", lines 135-136
OuterExcept(kind) == IF kind = "KeyboardInterrupt" THEN "stop" ELSE "raised"

CloseStep(here, call, next) ==
    /\ pc = here
    /\ \E o \in CloseOutcomes :
         IF o = "ok"
         THEN pc' = next /\ UNCHANGED exc
         ELSE pc' = InnerExcept(o) /\ exc' = o

\* SaveMetadata(cam_params, grabdata), line 128
SaveMetadata ==
    /\ CloseStep("save", "SaveMetadata", "sleep1")
    /\ nSave' = Bump(nSave)
    /\ saved' = (saved \/ pc' = "sleep1")
    /\ UNCHANGED <<params, setup, cnt, grabdata, timeFirstGrab, grabResult, sinks,
                   stopQueue, camera, nCloseCamera, grabsSinceStop, errRun,
                   held, recorded, nDispErr, logged, closed, attempt>>

\* time.sleep(1), line 129
SleepBeforeClose ==
    /\ pc = "sleep1"
    /\ \E o \in {"ok", "KeyboardInterrupt"} :
         IF o = "ok"
         THEN pc' = "close" /\ UNCHANGED exc
         ELSE pc' = InnerExcept(o) /\ exc' = o
    /\ UNCHANGED <<params, setup, cnt, grabdata, timeFirstGrab, grabResult, sinks,
                   stopQueue, camera, closing, grabsSinceStop, errRun, held,
                   recorded,
                   nDispErr, logged, device>>

\* camera.Close(), line 130
Close ==
    /\ CloseStep("close", "Close", "stopgrab")
    /\ closed' = (closed \/ pc' = "stopgrab")
    /\ attempt' = IF pc' = "stopgrab" THEN Append(attempt, "Close") ELSE << >>
    /\ UNCHANGED <<params, setup, cnt, grabdata, timeFirstGrab, grabResult, sinks,
                   stopQueue, camera, closing, grabsSinceStop, errRun, held,
                   recorded, nDispErr, logged, saved>>

\* camera.StopGrabbing(); break, lines 131-132
StopGrabbing ==
    /\ CloseStep("stopgrab", "StopGrabbing", "stop")
    /\ attempt' = IF pc' = "stop" THEN Append(attempt, "StopGrabbing") ELSE << >>
    /\ UNCHANGED <<params, setup, cnt, grabdata, timeFirstGrab, grabResult, sinks,
                   stopQueue, camera, closing, grabsSinceStop, errRun, held,
                   recorded, nDispErr, logged, saved, closed>>

\* except: time.sleep(0.1), lines 133-134, then the next round of while True
Backoff ==
    /\ pc = "backoff"
    /\ \E o \in {"ok", "KeyboardInterrupt"} :
         IF o = "ok"
         THEN pc' = "save" /\ exc' = NoExc
         ELSE pc' = OuterExcept(o) /\ exc' = o
    /\ UNCHANGED <<params, setup, cnt, grabdata, timeFirstGrab, grabResult, sinks,
                   stopQueue, camera, closing, grabsSinceStop, errRun, held,
                   recorded,
                   nDispErr, logged, device>>

\* writeQueue.append('STOP'); break, lines 86-87
PushStop ==
    /\ pc = "stop"
    /\ writeQueue' = Append(writeQueue, STOP)
    /\ pc' = "done"
    /\ exc' = NoExc
    /\ UNCHANGED <<params, setup, cnt, grabdata, timeFirstGrab, grabResult, dispQueue,
                   stopQueue, camera, closing, grabsSinceStop, errRun, held,
                   recorded,
                   nDispErr, logged, device>>

Next ==
    \/ RaiseStop
    \/ StreamEnd
    \/ While
    \/ StopCheck
    \/ GetNextImage
    \/ PushWrite
    \/ Stamp
    \/ Display
    \/ Release
    \/ Report
    \/ Sleep
    \/ Log
    \/ SaveMetadata
    \/ SleepBeforeClose
    \/ Close
    \/ StopGrabbing
    \/ Backoff
    \/ PushStop

Spec == Init /\ [][Next]_vars

\* ------------------------------------------- OpenCamera and prepare_camera
\* the variables of GrabFrames and CloseCamera, untouched while the camera
\* is opened
grabbing ==
    <<cam_params, cnt, grabdata, timeFirstGrab, grabResult, writeQueue,
      dispQueue, stopQueue, streaming, hwClock, nDelivered, exc, nCloseCamera,
      nSave, grabsSinceStop, errRun, held, recorded, nDispErr, logged, saved,
      closed, attempt>>

\* GrabFrames has not been entered
NotGrabbing ==
    /\ cnt = 0
    /\ grabdata = [timeStamp |-> << >>, frameNumber |-> << >>]
    /\ timeFirstGrab = << >>
    /\ grabResult = << >>
    /\ writeQueue = << >>
    /\ dispQueue = << >>
    /\ stopQueue = << >>
    /\ streaming = FALSE
    /\ hwClock = 0
    /\ nDelivered = 0
    /\ exc = NoExc
    /\ nCloseCamera = 0
    /\ nSave = 0
    /\ grabsSinceStop = 0
    /\ errRun = NoRun
    /\ held = {}
    /\ recorded = << >>
    /\ nDispErr = 0
    /\ logged = FALSE
    /\ saved = FALSE
    /\ closed = FALSE
    /\ attempt = << >>

\* what one part of a configuration step may do: set its node, find the
\* node not accessible, raise PySpin.SpinnakerException, raise something else
StepOutcomes == {"ok", "denied", "SpinnakerException", "Exception"}

\* the step prepare_camera calls after step, lines 380-385
NextStep(step) ==
    PrepareOrder[1 + CHOOSE i \in 1..Len(PrepareOrder) : PrepareOrder[i] = step]

\* mutant: prepare_camera goes on to the next step whatever a step returned
StepReturnsUnchecked(step, v) ==
    /\ rets' = Append(rets, v)
    /\ IF step = "configure_buffer"
       THEN result' = v /\ pc' = "return"
       ELSE result' = result /\ pc' = NextStep(step)

\* step has returned v to prepare_camera: the nested ifs of lines 380-385
StepReturns(step, v) ==
    /\ rets' = Append(rets, v)
    /\ IF step = "configure_buffer"
       THEN result' = v /\ pc' = "return"
       ELSE result' = result /\ pc' = (IF v THEN NextStep(step) ELSE "return")

\* an exception leaves the step, prepare_camera and OpenCamera: none of
\* the three catches it
StepRaises ==
    /\ pc' = "raised"
    /\ UNCHANGED <<rets, result>>

\* the end of a step whose body is try: ... except PySpin.SpinnakerException:
\* return False (lines 63-65, 123-125, 183-185, 216-218, 285-287)
Guarded(step, out) ==
    IF out = "Exception" THEN StepRaises ELSE StepReturns(step, out = "ok")

\* the end of a part of configure_buffer, which has no try block
Unguarded(step, out) ==
    IF out = "denied" THEN StepReturns(step, FALSE) ELSE StepRaises

\* a step whose settings are not followed here: it returns True or False
Configure(step) ==
    /\ pc = step
    /\ ran' = Append(ran, step)
    /\ \E out \in StepOutcomes : Guarded(step, out)
    /\ UNCHANGED <<args, bufferEntry, returned, nodes, started, grabbing>>

\* configure_acquisition_mode, lines 10-67
ConfigureAcquisitionMode == Configure("configure_acquisition_mode")

\* configure_exposure, lines 70-127
ConfigureExposure == Configure("configure_exposure")

\* configure_gain, lines 130-187
ConfigureGain == Configure("configure_gain")

\* disable_gamma, lines 190-220
DisableGamma == Configure("disable_gamma")

\* configure_trigger, lines 255-258: trigger mode off
TriggerModeOff ==
    /\ pc = "configure_trigger"
    /\ ran' = Append(ran, "configure_trigger")
    /\ \E out \in StepOutcomes :
           IF out = "ok"
           THEN /\ nodes' = [nodes EXCEPT !.TriggerMode = "Off"]
                /\ pc' = "trigger_selector"
                /\ UNCHANGED <<rets, result>>
           ELSE /\ Guarded("configure_trigger", out)
                /\ UNCHANGED nodes
    /\ UNCHANGED <<args, bufferEntry, returned, started, grabbing>>

\* configure_trigger, lines 262-265: the access mode of TriggerSelector is
\* tested, and TriggerSelector_FrameStart is written to TriggerSource
TriggerSelectorFrameStart ==
    /\ pc = "trigger_selector"
    /\ \E out \in StepOutcomes :
           IF out = "ok"
           THEN /\ nodes' = [nodes EXCEPT !.TriggerSource = "TriggerSelector_FrameStart"]
                /\ pc' = "trigger_source"
                /\ UNCHANGED <<rets, result>>
           ELSE /\ Guarded("configure_trigger", out)
                /\ UNCHANGED nodes
    /\ UNCHANGED <<args, bufferEntry, ran, returned, started, grabbing>>

\* the source written for a trigger_type, lines 273-278; none for another type
RequestedSource(trigger_type, current) ==
    IF trigger_type = "hardware" THEN "Line0"
    ELSE IF trigger_type = "software" THEN "Software"
    ELSE current

\* configure_trigger, lines 269-278: trigger source
TriggerSource ==
    /\ pc = "trigger_source"
    /\ \E out \in StepOutcomes :
           IF out = "ok"
           THEN /\ nodes' = [nodes EXCEPT !.TriggerSource =
                                 RequestedSource(args.trigger_type, @)]
                /\ pc' = "trigger_on"
                /\ UNCHANGED <<rets, result>>
           ELSE /\ Guarded("configure_trigger", out)
                /\ UNCHANGED nodes
    /\ UNCHANGED <<args, bufferEntry, ran, returned, started, grabbing>>

\* configure_trigger, lines 282-289: trigger mode on, return result
TriggerModeOn ==
    /\ pc = "trigger_on"
    /\ \E out \in StepOutcomes \ {"denied"} :
           /\ Guarded("configure_trigger", out)
           /\ nodes' = IF out = "ok" THEN [nodes EXCEPT !.TriggerMode = "On"]
                       ELSE nodes
    /\ UNCHANGED <<args, bufferEntry, ran, returned, started, grabbing>>

\* configure_buffer, lines 293-318: the nodes are retrieved and tested
BufferNodes ==
    /\ pc = "configure_buffer"
    /\ ran' = Append(ran, "configure_buffer")
    /\ \E out \in StepOutcomes :
           IF out = "ok"
           THEN pc' = "buffer_count_mode" /\ UNCHANGED <<rets, result>>
           ELSE Unguarded("configure_buffer", out)
    /\ bufferEntry' = <<BufferSettings(nodes)>>
    /\ UNCHANGED <<args, returned, nodes, started, grabbing>>

\* configure_buffer, line 320: count mode Manual
BufferCountMode ==
    /\ pc = "buffer_count_mode"
    /\ \E out \in StepOutcomes \ {"denied"} :
           IF out = "ok"
           THEN /\ nodes' = [nodes EXCEPT !.StreamBufferCountMode = "Manual"]
                /\ pc' = "buffer_count"
                /\ UNCHANGED <<rets, result>>
           ELSE /\ Unguarded("configure_buffer", out)
                /\ UNCHANGED nodes
    /\ UNCHANGED <<args, bufferEntry, ran, returned, started, grabbing>>

\* configure_buffer, lines 324-333: buffer count
BufferCount ==
    /\ pc = "buffer_count"
    /\ \E out \in StepOutcomes :
           IF out = "ok"
           THEN /\ nodes' = [nodes EXCEPT !.StreamBufferCountManual = args.bufferSize]
                /\ pc' = "buffer_mode"
                /\ UNCHANGED <<rets, result>>
           ELSE /\ Unguarded("configure_buffer", out)
                /\ UNCHANGED nodes
    /\ UNCHANGED <<args, bufferEntry, ran, returned, started, grabbing>>

\* configure_buffer, lines 335-355: handling mode, or False for a mode that
\* is not one of the four
BufferHandlingMode ==
    /\ pc = "buffer_mode"
    /\ IF args.bufferMode \in HandlingModes
       THEN \E out \in StepOutcomes \ {"denied"} :
                IF out = "ok"
                THEN /\ nodes' = [nodes EXCEPT !.StreamBufferHandlingMode =
                                      args.bufferMode]
                     /\ StepReturns("configure_buffer", TRUE)
                ELSE /\ Unguarded("configure_buffer", out)
                     /\ UNCHANGED nodes
       ELSE /\ StepReturns("configure_buffer", FALSE)
            /\ UNCHANGED nodes
    /\ UNCHANGED <<args, bufferEntry, ran, returned, started, grabbing>>

\* return result, line 387; in OpenCamera the value is dropped, cam.py line 29
PrepareCameraReturn ==
    /\ pc = "return"
    /\ returned' = <<result>>
    /\ pc' = IF args.caller = "OpenCamera" THEN "info" ELSE "end"
    /\ UNCHANGED <<args, bufferEntry, ran, rets, result, nodes, started, grabbing>>

\* OpenCamera, cam.py lines 32-47: serial number, model, width, height
OpenCameraInfo ==
    /\ pc = "info"
    /\ pc' \in {"announce", "raised"}
    /\ UNCHANGED <<setup, grabbing>>

\* OpenCamera, cam.py lines 50-52: print("Started", ...); return camera, cam_params
OpenCameraReturn ==
    /\ pc = "announce"
    /\ started' = TRUE
    /\ pc' = "opened"
    /\ UNCHANGED <<args, bufferEntry, ran, rets, result, returned, nodes, grabbing>>

\* OpenCamera after camera.Init() (cam.py line 28), or another caller of
\* prepare_camera, with result = False (line 378)
InitOpen ==
    /\ args \in {OpenCameraArgs} \cup DirectArgs
    /\ nodes \in FreshNodes
    /\ pc = "configure_acquisition_mode"
    /\ ran = << >>
    /\ rets = << >>
    /\ result = FALSE
    /\ returned = << >>
    /\ started = FALSE
    /\ bufferEntry = << >>
    /\ cam_params = [recTimeInSec |-> 1, frameRate |-> 1, displayFrameRate |-> 1,
                     chunkLengthInSec |-> 1]
    /\ NotGrabbing

NextOpen ==
    \/ ConfigureAcquisitionMode
    \/ ConfigureExposure
    \/ ConfigureGain
    \/ DisableGamma
    \/ TriggerModeOff
    \/ TriggerSelectorFrameStart
    \/ TriggerSource
    \/ TriggerModeOn
    \/ BufferNodes
    \/ BufferCountMode
    \/ BufferCount
    \/ BufferHandlingMode
    \/ PrepareCameraReturn
    \/ OpenCameraInfo
    \/ OpenCameraReturn

SpecOpen == InitOpen /\ [][NextOpen]_vars

\* ---------------------------------------- GrabFrames: the display cadence
\* largest frame rate and display frame rate the cadence is computed for
MaxRate == 6

\* GrabFrames is entered with any frame rate and display frame rate
InitRatio ==
    /\ cam_params \in [recTimeInSec : {1}, frameRate : 1..MaxRate,
                       displayFrameRate : (-1)..(MaxRate + 1),
                       chunkLengthInSec : {1}]
    /\ pc = "setup"
    /\ Opened
    /\ NotGrabbing

\* lines 58-80: the counter, grabdata, numImagesToGrab, chunkLengthInFrames
\* and frameRatio are set, then camera.BeginAcquisition()
BeginAcquisition ==
    /\ pc = "setup"
    /\ pc' = "while"
    /\ streaming' = TRUE
    /\ UNCHANGED <<params, setup, cnt, grabdata, timeFirstGrab, grabResult, sinks,
                   stopQueue, hwClock, nDelivered, exc, closing, grabsSinceStop,
                   errRun, held, recorded, nDispErr, logged, device>>

SpecRatio == InitRatio /\ [][BeginAcquisition]_vars

\* ------------------------------------------------------------------ claims
\* the images of a queue, without the end-of-stream sentinel
Frames(q) == SelectSeq(q, LAMBDA x : x # STOP)

StrictlyIncreasingIds(q) ==
    \A i, j \in 1..Len(q) : i < j => q[i].id < q[j].id

\* a <= b for two fractions [num, den] with positive denominators
FracLeq(a, b) ==
    IF a.den = b.den THEN a.num <= b.num ELSE a.num * b.den <= b.num * a.den

\* C1: in every reachable state of GrabFrames the recorded frame numbers are
\* exactly 1, 2, ..., cnt, with no gap and no repeat, whatever successes,
\* recoverable errors and unclassified errors came before.
C1_FrameNumbersContiguous ==
    /\ Len(grabdata.frameNumber) = cnt
    /\ \A i \in 1..Len(grabdata.frameNumber) : grabdata.frameNumber[i] = i

\* two records were appended and the session has finished
C1_Witness ==
    /\ pc = "done"
    /\ cnt = 2
    /\ grabdata.frameNumber = <<1, 2>>

\* C2: on every path by which GrabFrames stops looping (stop signal, target
\* count reached, camera no longer streaming) CloseCamera has been invoked
\* exactly once when GrabFrames finishes.
C2_FinalizedOnEveryExit == pc = "done" => nCloseCamera = 1

\* C3: whenever GrabFrames finishes, 'STOP' has been pushed onto the write
\* queue exactly once and is the last element pushed.
C3_StopSentinelLast ==
    pc = "done" =>
        /\ writeQueue # << >>
        /\ writeQueue[Len(writeQueue)] = STOP
        /\ Cardinality({i \in 1..Len(writeQueue) : writeQueue[i] = STOP}) = 1

\* C4: the first record's timestamp is 0, every record's timestamp is (the
\* frame's hardware timestamp - the hardware timestamp of the first recorded
\* frame) / 1e9, the timestamps are non-decreasing, and time zero is the
\* first recorded frame's hardware timestamp from the first record on.
C4_RelativeTimestamps ==
    /\ Len(grabdata.timeStamp) = Len(recorded)
    /\ \A i \in 1..Len(recorded) :
         grabdata.timeStamp[i] =
             [num |-> recorded[i].ts - recorded[1].ts, den |-> NsPerSec]
    /\ Len(recorded) >= 1 =>
         /\ grabdata.timeStamp[1].num = 0
         /\ timeFirstGrab = <<recorded[1].ts>>
    /\ \A i, j \in 1..Len(grabdata.timeStamp) :
         i < j => FracLeq(grabdata.timeStamp[i], grabdata.timeStamp[j])

\* two records, the first frame's hardware timestamp is not 0 and the second
\* frame came later
C4_Witness ==
    /\ pc = "done"
    /\ Len(recorded) = 2
    /\ recorded[1].ts > 0
    /\ recorded[2].ts > recorded[1].ts
    /\ grabdata.timeStamp[2].num > 0

\* C5: the stop check comes before every grab attempt: control is at or past
\* GetNextImage, before the counter is incremented, only while cnt is below
\* the target, so the number of records never exceeds the target.
C5_NoGrabPastTarget ==
    /\ pc \in {"grab", "push", "stamp"} => cnt < numImagesToGrab
    /\ cnt <= numImagesToGrab
    /\ Len(grabdata.frameNumber) <= numImagesToGrab
    /\ Len(recorded) <= numImagesToGrab

\* the target was reached with no stop signal and the session finished
\* without asking the camera for another image
C5_Witness ==
    /\ pc = "done"
    /\ stopQueue = << >>
    /\ cnt = numImagesToGrab
    /\ nDelivered = numImagesToGrab
    /\ nCloseCamera = 1

\* C6: a stop signal raised while the grab loop runs is not lost: at most one
\* further grab attempt is made and then finalization is entered.
C6_StopNotLost ==
    /\ grabsSinceStop <= 1
    /\ (pc = "done" /\ stopQueue # << >>) => nCloseCamera = 1

\* C7: a SpinnakerException raised by the grab attempt (GetNextImage) leaves
\* cnt, grabdata, writeQueue and dispQueue unchanged and leads to the backoff
\* sleep, from which the loop goes on at its head; k such errors in a row
\* followed by a successful grab add exactly one record and increase cnt by 1.
C7_RecoverableErrorStep ==
    /\ (pc = "grab" /\ pc' = "sleep") =>
           UNCHANGED <<cnt, grabdata, writeQueue, dispQueue>>
    /\ (pc = "sleep" /\ pc' # pc) =>
           pc' = "while" /\ UNCHANGED <<cnt, grabdata, writeQueue, dispQueue>>
    /\ (errRun'.k > 0 /\ ~errRun'.succ) => cnt' = errRun'.base
    /\ (errRun'.k > 0 /\ errRun'.succ /\ cnt' # cnt) =>
           /\ cnt' = errRun'.base + 1
           /\ Len(grabdata'.frameNumber) = Len(grabdata.frameNumber) + 1
           /\ Len(grabdata'.timeStamp) = Len(grabdata.timeStamp) + 1

C7_RecoverableError == [][C7_RecoverableErrorStep]_vars

\* two recoverable errors in a row, then a grab that succeeded and was recorded
C7_Witness ==
    /\ errRun.k >= 2
    /\ errRun.succ
    /\ pc = "disp"
    /\ cnt = errRun.base + 1

\* C8: a failure of SaveMetadata leaves CloseCamera as a failure of the
\* session; CloseCamera does not catch it.
C8_PersistenceFailureSurfaced ==
    [][(pc = "save" /\ exc' = "Exception") => pc' = "raised"]_vars

\* C9: a KeyboardInterrupt delivered at any point of CloseCamera's retry loop
\* breaks out of the loop.
C9_InterruptBreaksOut ==
    [][(pc \in ClosePcs /\ exc' = "KeyboardInterrupt") => pc' \notin ClosePcs]_vars

\* C10: the images in the write queue are in capture order with none pushed
\* twice, and the images in the display queue are a subsequence of them in
\* the same order.
C10_SinkOrder ==
    /\ StrictlyIncreasingIds(Frames(writeQueue))
    /\ StrictlyIncreasingIds(dispQueue)
    /\ \A i \in 1..Len(dispQueue) :
         \E j \in 1..Len(writeQueue) : writeQueue[j].id = dispQueue[i].id
    /\ \A i \in 1..Len(writeQueue) :
         writeQueue[i] = STOP \/ writeQueue[i].id \in 1..nDelivered

\* two images were written, the second of them was displayed
C10_Witness ==
    /\ pc = "done"
    /\ Len(Frames(writeQueue)) = 2
    /\ Len(dispQueue) = 1
    /\ dispQueue[1].id = 2

\* floor(n / frameRatio): the frame numbers up to n that are due for display
DueCount(n) == IF frameRatio.inf THEN 0 ELSE n \div frameRatio.n

\* every displayed image has a frame number that is a multiple of frameRatio
DisplayedOnlyWhenDue ==
    \A i \in 1..Len(dispQueue) :
        \E k \in 1..Len(recorded) :
            /\ recorded[k].id = dispQueue[i].id
            /\ ~frameRatio.inf
            /\ k % frameRatio.n = 0

\* C11 as claimed: a finished session with N recorded frames has pushed
\* exactly floor(N / r) images to the display queue, each for a frame number
\* that is a multiple of r.
C11_ExactDisplayCount ==
    pc = "done" => Len(dispQueue) = DueCount(cnt) /\ DisplayedOnlyWhenDue

\* C11 as amended: the display queue has received one push for every frame
\* number that is a multiple of r, except the pushes that raised (the error
\* is handled and the frame is skipped): pushes = floor(N / r) - failed
\* pushes, never more than floor(N / r), only for multiples of r.
C11_DisplayCount ==
    /\ Len(dispQueue) + nDispErr = DueCount(IF pc = "disp" THEN cnt - 1 ELSE cnt)
    /\ Len(dispQueue) <= DueCount(cnt)
    /\ DisplayedOnlyWhenDue

\* two frames were due for display, one was pushed and one push raised
C11_Witness ==
    /\ pc = "done"
    /\ cnt = 2
    /\ DueCount(cnt) = 2
    /\ Len(dispQueue) = 1
    /\ nDispErr = 1

\* n is round(f / d) for positive f and d: the integer nearest to the
\* quotient, the even one of the two when the quotient lies half way
IsRounded(n, f, d) ==
    /\ 2 * f - d <= 2 * n * d
    /\ 2 * n * d <= 2 * f + d
    /\ (2 * n * d = 2 * f - d \/ 2 * n * d = 2 * f + d) => n % 2 = 0

\* C12 as claimed: the ratio GrabFrames has computed is 'never' when
\* displayFrameRate <= 0 and otherwise round(frameRate / displayFrameRate)
\* clamped to at least 1, also when displayFrameRate exceeds frameRate.
C12_RatioClamped ==
    pc = "while" =>
        IF cam_params.displayFrameRate <= 0
        THEN frameRatio.inf
        ELSE /\ ~frameRatio.inf
             /\ \E n \in 0..MaxRate :
                    /\ IsRounded(n, cam_params.frameRate, cam_params.displayFrameRate)
                    /\ frameRatio.n = IF n < 1 THEN 1 ELSE n

\* C12 as amended: the ratio is 'never' when displayFrameRate <= 0,
\* round(frameRate / displayFrameRate), which is at least 1, when
\* 0 < displayFrameRate <= frameRate, and frameRate itself when
\* displayFrameRate exceeds frameRate.
C12_Ratio ==
    pc = "while" =>
        IF cam_params.displayFrameRate <= 0
        THEN frameRatio.inf
        ELSE IF cam_params.displayFrameRate <= cam_params.frameRate
        THEN /\ ~frameRatio.inf
             /\ frameRatio.n >= 1
             /\ IsRounded(frameRatio.n, cam_params.frameRate,
                          cam_params.displayFrameRate)
        ELSE /\ ~frameRatio.inf
             /\ frameRatio.n = cam_params.frameRate

\* the ratio has been computed for a display frame rate above the frame rate
C12_Witness ==
    /\ pc = "while"
    /\ cam_params.frameRate = 2
    /\ cam_params.displayFrameRate = 3
    /\ frameRatio = [inf |-> FALSE, n |-> 2]

\* C13: every image returned by GetNextImage has been released when the next
\* grab attempt begins, on every path through the loop body.
C13_ReleasedBeforeNextGrab == pc = "grab" => held = {}

\* C14: an Exception raised anywhere in an iteration is logged and the loop
\* goes on at its head with nothing else changed; no step of the try block or
\* of a handler leaves the loop, which is left only by the conditions at its
\* head (line 84 with the stop condition true, line 83).
C14_UnclassifiedErrorStep ==
    /\ (pc \in LoopPcs \ {"while", "check"}) => pc' \in LoopPcs
    /\ (pc = "log" /\ pc' # pc) =>
           /\ pc' = "while"
           /\ logged'
           /\ UNCHANGED <<cnt, grabdata, writeQueue, dispQueue>>
    /\ (pc = "check" /\ pc' \notin LoopPcs) => StopCondition
    /\ (pc = "while" /\ pc' \notin LoopPcs) => ~streaming

C15_StartupAborted == started => returned = <<TRUE>>

\* C16: the steps prepare_camera has invoked are the first ones of the fixed
\* order, a step is invoked only if every step before it returned True, and
\* prepare_camera returns True exactly if all six steps returned True.
C16_OrderedShortCircuit ==
    /\ Len(ran) <= Len(PrepareOrder)
    /\ \A i \in 1..Len(ran) : ran[i] = PrepareOrder[i]
    /\ \A i \in 1..Len(ran) : \A j \in 1..(i - 1) : j <= Len(rets) /\ rets[j]
    /\ returned # << >> =>
           (returned[1] <=> (Len(rets) = Len(PrepareOrder)
                             /\ \A j \in 1..Len(rets) : rets[j]))

\* the third step returned False and prepare_camera returned False without
\* invoking a fourth
C16_Witness ==
    /\ returned = <<FALSE>>
    /\ rets = <<TRUE, TRUE, FALSE>>
    /\ Len(ran) = 3

\* C17: when GrabFrames has returned after the stop signal was raised or the
\* target count was reached, the metadata has been flushed.
C17_FlushedOnReturn ==
    (pc = "done" /\ (stopQueue # << >> \/ cnt >= numImagesToGrab)) => saved

\* C18: at every iteration boundary the write queue holds exactly the images
\* of the records: as many images as cnt, the k-th one described by record k.
C18_WriteQueueMatchesRecords ==
    pc \in {"while", "check"} =>
        /\ Len(Frames(writeQueue)) = cnt
        /\ Frames(writeQueue) = recorded

\* C19: once the metadata has been persisted, a retry of the close sequence
\* does not persist it again.
C19_PersistedOnce ==
    [][saved => ~(pc = "save" /\ pc' = "sleep1")]_vars

\* C20: in every attempt, camera.Close() completes only after StopGrabbing
\* has completed in that attempt, and never after an earlier Close succeeded.
C20_StopBeforeClose ==
    [][(pc = "close" /\ pc' = "stopgrab") =>
           /\ \E i \in 1..Len(attempt) : attempt[i] = "StopGrabbing"
           /\ ~closed]_vars

\* C21: whenever configure_trigger has returned True, the trigger mode is On,
\* trigger_type is 'hardware' or 'software', and the trigger source is the
\* one requested by it (Line0 for 'hardware', Software for 'software').
C21_TriggerAsRequested ==
    (Len(rets) >= 5 /\ rets[5]) =>
        /\ nodes.TriggerMode = "On"
        /\ args.trigger_type \in {"hardware", "software"}
        /\ nodes.TriggerSource =
               (IF args.trigger_type = "hardware" THEN "Line0" ELSE "Software")

\* C22: when configure_buffer has returned False, the buffer count mode, the
\* buffer count and the handling mode are the ones it found when it was
\* called.
C22_FailedBufferLeavesSettings ==
    (Len(rets) = 6 /\ ~rets[6]) => bufferEntry = <<BufferSettings(nodes)>>

====
